---- MODULE Spec2Model ----
(***************************************************************************)
(* Critical Values Alert System: the critical-value engine                 *)
(* (src/critical_values_engine.py).                                        *)
(*                                                                         *)
(* Numbers.  Laboratory values and thresholds are Python floats with at    *)
(* most two decimals; the model keeps them as integers counted in          *)
(* hundredths of the unit (glucose 40 mg/dL is 4000, troponin 0.04 ng/mL   *)
(* is 4, ph 7.20 is 720).  "Just below" a threshold b is b - 1.            *)
(*                                                                         *)
(* Python values.  None is the record None; a number stored in a dict of   *)
(* the catalog is boxed as Num(n) so that it can be compared with None;    *)
(* an exception leaving a function is the record Raised(kind).             *)
(* A formatted message f"{label}: {test} = {value} {unit} ({op} {bound})"  *)
(* is the record of its parts.                                             *)
(***************************************************************************)
EXTENDS Integers, Sequences, FiniteSets, TLC

VARIABLES
    critical_ranges,    \* CriticalValuesEngine.critical_ranges
    escalation_matrix,  \* CriticalValuesEngine.escalation_matrix
    alert_history,      \* CriticalValuesEngine.alert_history
    notify_log,         \* the notify_contact calls made so far, <<role, alert>>
    escalation_log,     \* the schedule_escalation calls made so far
    now,                \* the wall clock read by datetime.now()
    op,                 \* the operation that ran last
    arg_test,           \* check_critical_value: test_name of the last call
    arg_value,          \* check_critical_value: value of the last call
    arg_patient,        \* check_critical_value: patient_id of the last call
    check_result,       \* check_critical_value: what the last call returned
    sent_alert,         \* send_alert: the alert of the last call
    send_result,        \* send_alert: what the last call returned
    metrics,            \* calculate_metrics, generate_alert_summary: what the last call returned
    channel_down,       \* the contact roles whose notification channel fails
    program,            \* the script this process runs
    critical_values,    \* dashboard: st.session_state.critical_values
    selected_alert,     \* dashboard: the Test_ID chosen in the selectbox
    banner,             \* dashboard: the st.success / st.warning of the last run
    acked_before,       \* dashboard: Acknowledged of the row before the last click
    sources,            \* the ingestion sources that are in a call of send_alert
    runner              \* production runner: the StreamlitRunner and its child process

\* the variables of the dashboard (src/critical_values_alert_system.py)
dashboard_vars == <<critical_values, selected_alert, banner, acked_before>>

\* what no operation of the engine changes
outside_engine == <<channel_down, program, dashboard_vars, sources, runner>>

vars == <<critical_ranges, escalation_matrix, alert_history, notify_log,
          escalation_log, now, op, arg_test, arg_value, arg_patient,
          check_result, sent_alert, send_result, metrics, outside_engine>>

-----------------------------------------------------------------------------
(* Bounds of the model *)

MaxHistory == 2
MaxClock == 1
\* rows of the dashboard's table (n_samples of generate_critical_values)
NSamples == 3
\* ingestion sources that call send_alert on one engine at the same time
NumSources == 2
\* the restarts of the production runner are counted up to this many
MaxAttempts == 8

-----------------------------------------------------------------------------
(* Python values *)

None == [py |-> "None"]

Num(n) == [num |-> n]

Raised(kind) == [py |-> "raise", exc |-> kind]

\* True and False as values a variable holds next to None
PyBool(b) == IF b THEN [py |-> "True"] ELSE [py |-> "False"]

IsRaised(x) == "exc" \in DOMAIN x

\* d.get(k, default)
PyGet(d, k, default) == IF k \in DOMAIN d THEN d[k] ELSE default

\* faulty variant: the guard `bound and ...` left out
TruthyAlways(x) == TRUE

\* bool(x) for x a number or None: None and 0 are false
Truthy(x) == x # None /\ x.num # 0

-----------------------------------------------------------------------------
(* The static catalogs *)

critical_ranges_table ==
    [glucose    |-> [low |-> Num(4000), high |-> Num(50000), unit |-> "mg/dL",
                     panic |-> [low |-> Num(3000), high |-> Num(60000)]],
     sodium     |-> [low |-> Num(12000), high |-> Num(16000), unit |-> "mEq/L",
                     panic |-> [low |-> Num(11500), high |-> Num(16500)]],
     potassium  |-> [low |-> Num(250), high |-> Num(650), unit |-> "mEq/L",
                     panic |-> [low |-> Num(200), high |-> Num(700)]],
     calcium    |-> [low |-> Num(600), high |-> Num(1300), unit |-> "mg/dL",
                     panic |-> [low |-> Num(500), high |-> Num(1400)]],
     creatinine |-> [low |-> None, high |-> Num(700), unit |-> "mg/dL",
                     panic |-> [low |-> None, high |-> Num(1000)]],
     hemoglobin |-> [low |-> Num(700), high |-> Num(2000), unit |-> "g/dL",
                     panic |-> [low |-> Num(500), high |-> Num(2200)]],
     wbc        |-> [low |-> Num(200), high |-> Num(3000), unit |-> "K/uL",
                     panic |-> [low |-> Num(100), high |-> Num(5000)]],
     platelets  |-> [low |-> Num(5000), high |-> Num(100000), unit |-> "K/uL",
                     panic |-> [low |-> Num(2000), high |-> Num(150000)]],
     inr        |-> [low |-> None, high |-> Num(450), unit |-> "",
                     panic |-> [low |-> None, high |-> Num(600)]],
     ph         |-> [low |-> Num(720), high |-> Num(760), unit |-> "",
                     panic |-> [low |-> Num(710), high |-> Num(770)]],
     pco2       |-> [low |-> Num(2000), high |-> Num(6000), unit |-> "mmHg",
                     panic |-> [low |-> Num(1500), high |-> Num(7000)]],
     po2        |-> [low |-> Num(5000), high |-> None, unit |-> "mmHg",
                     panic |-> [low |-> Num(4000), high |-> None]],
     troponin   |-> [low |-> None, high |-> Num(4), unit |-> "ng/mL",
                     panic |-> [low |-> None, high |-> Num(10)]],
     bnp        |-> [low |-> None, high |-> Num(90000), unit |-> "pg/mL",
                     panic |-> [low |-> None, high |-> Num(200000)]],
     positive_blood_culture |-> [alert |-> TRUE, priority |-> "CRITICAL"],
     csf_positive           |-> [alert |-> TRUE, priority |-> "CRITICAL"]]

\* faulty variant: the critical and the panic bound of sodium exchanged on the high side
load_critical_ranges_high_swapped ==
    [critical_ranges_table EXCEPT !.sodium.high = Num(16500),
                                  !.sodium.panic.high = Num(16000)]

load_critical_ranges == critical_ranges_table

\* the catalog of the data generator of the enhanced dashboard, in hundredths
lab_tests ==
    [t \in {"Glucose", "Potassium", "Sodium", "Hemoglobin", "Platelet Count",
            "Creatinine", "Troponin I", "INR"} |->
       CASE t = "Glucose" ->
              [unit |-> "mg/dL", normal_range |-> <<Num(7000), Num(10000)>>,
               critical_low |-> Num(4000), critical_high |-> Num(40000),
               panic_low |-> Num(3000), panic_high |-> Num(50000)]
         [] t = "Potassium" ->
              [unit |-> "mEq/L", normal_range |-> <<Num(350), Num(500)>>,
               critical_low |-> Num(250), critical_high |-> Num(600),
               panic_low |-> Num(200), panic_high |-> Num(650)]
         [] t = "Sodium" ->
              [unit |-> "mEq/L", normal_range |-> <<Num(13600), Num(14500)>>,
               critical_low |-> Num(12000), critical_high |-> Num(16000),
               panic_low |-> Num(11500), panic_high |-> Num(16500)]
         [] t = "Hemoglobin" ->
              [unit |-> "g/dL", normal_range |-> <<Num(1200), Num(1600)>>,
               critical_low |-> Num(700), critical_high |-> Num(2000),
               panic_low |-> Num(500), panic_high |-> Num(2200)]
         [] t = "Platelet Count" ->
              [unit |-> "x10^3/uL", normal_range |-> <<Num(15000), Num(45000)>>,
               critical_low |-> Num(5000), critical_high |-> Num(100000),
               panic_low |-> Num(2000), panic_high |-> Num(120000)]
         [] t = "Creatinine" ->
              [unit |-> "mg/dL", normal_range |-> <<Num(60), Num(120)>>,
               critical_low |-> Num(20), critical_high |-> Num(500),
               panic_low |-> Num(10), panic_high |-> Num(800)]
         [] t = "Troponin I" ->
              [unit |-> "ng/mL", normal_range |-> <<Num(0), Num(4)>>,
               critical_low |-> None, critical_high |-> Num(10),
               panic_low |-> None, panic_high |-> Num(100)]
         [] t = "INR" ->
              [unit |-> "", normal_range |-> <<Num(80), Num(120)>>,
               critical_low |-> None, critical_high |-> Num(500),
               panic_low |-> None, panic_high |-> Num(800)]]

\* faulty variant: the matrix has policies for PANIC and CRITICAL, the tiers
\* as the specification names them, and none for HIGH
setup_escalation_matrix_spec_names ==
    [PANIC    |-> [primary |-> <<"attending_physician", "charge_nurse">>,
                   escalation_time |-> 5,
                   secondary |-> <<"medical_director", "nursing_supervisor">>,
                   final |-> <<"chief_medical_officer">>],
     CRITICAL |-> [primary |-> <<"attending_physician">>,
                   escalation_time |-> 15,
                   secondary |-> <<"charge_nurse", "on_call_physician">>,
                   final |-> <<"medical_director">>],
     MODERATE |-> [primary |-> <<"primary_nurse">>,
                   escalation_time |-> 30,
                   secondary |-> <<"attending_physician">>,
                   final |-> <<"charge_nurse">>]]

setup_escalation_matrix ==
    [CRITICAL |-> [primary |-> <<"attending_physician", "charge_nurse">>,
                   escalation_time |-> 5,
                   secondary |-> <<"medical_director", "nursing_supervisor">>,
                   final |-> <<"chief_medical_officer">>],
     HIGH     |-> [primary |-> <<"attending_physician">>,
                   escalation_time |-> 15,
                   secondary |-> <<"charge_nurse", "on_call_physician">>,
                   final |-> <<"medical_director">>],
     MODERATE |-> [primary |-> <<"primary_nurse">>,
                   escalation_time |-> 30,
                   secondary |-> <<"attending_physician">>,
                   final |-> <<"charge_nurse">>]]

-----------------------------------------------------------------------------
(* check_critical_value *)

\* a < b, a TypeError when b is None
PyLt(a, b) == IF b = None THEN "E" ELSE IF a < b.num THEN "T" ELSE "F"

\* a > b, a TypeError when b is None
PyGt(a, b) == IF b = None THEN "E" ELSE IF a > b.num THEN "T" ELSE "F"

\* `x and c`: c is evaluated only when x is truthy
PyAnd(x, c) == IF Truthy(x) THEN c ELSE "F"

\* faulty variant: `value > bound` on the low side
CondLowInverted(bound, value) ==
    IF Truthy(bound) THEN (IF value > bound.num THEN "T" ELSE "F") ELSE "F"

\* faulty variant: `value <= bound`
CondLowInclusive(bound, value) ==
    IF Truthy(bound) THEN (IF value <= bound.num THEN "T" ELSE "F") ELSE "F"

\* faulty variant: `value < (bound or 0)`
CondLowNoneAsZero(bound, value) ==
    IF Truthy(bound) THEN PyLt(value, bound)
    ELSE IF value < 0 THEN "T" ELSE "F"

\* `bound and value < bound`
CondLow(bound, value) == PyAnd(bound, PyLt(value, bound))

\* faulty variant: `value >= bound`
CondHighInclusive(bound, value) ==
    IF Truthy(bound) THEN (IF value >= bound.num THEN "T" ELSE "F") ELSE "F"

\* `bound and value > bound`
CondHigh(bound, value) == PyAnd(bound, PyGt(value, bound))

\* f"{label}: {test_name} = {value} {unit} ({cmp} {bound})"
FormatMessage(label, test_name, value, unit, cmp, bound) ==
    [label |-> label, test |-> test_name, value |-> value, unit |-> unit,
     cmp |-> cmp, bound |-> IF bound = None THEN "None" ELSE bound.num]

EmptyDict == [k \in {} |-> None]

\* faulty variant: the critical bounds tested before the panic bounds
threshold_chain_critical_first(ranges, test_name, value) ==
    LET panic == PyGet(ranges, "panic", EmptyDict)
        pl == CondLow(PyGet(panic, "low", None), value)
        ph == CondHigh(PyGet(panic, "high", None), value)
        cl == CondLow(PyGet(ranges, "low", None), value)
        ch == CondHigh(PyGet(ranges, "high", None), value)
    IN  IF cl = "T" THEN
            [severity |-> "HIGH",
             alert |-> FormatMessage("CRITICAL LOW", test_name, value, ranges.unit, "<", ranges.low)]
        ELSE IF ch = "T" THEN
            [severity |-> "HIGH",
             alert |-> FormatMessage("CRITICAL HIGH", test_name, value, ranges.unit, ">", ranges.high)]
        ELSE IF pl = "T" THEN
            [severity |-> "CRITICAL",
             alert |-> FormatMessage("PANIC LOW", test_name, value, ranges.unit, "<", panic.low)]
        ELSE IF ph = "T" THEN
            [severity |-> "CRITICAL",
             alert |-> FormatMessage("PANIC HIGH", test_name, value, ranges.unit, ">", panic.high)]
        ELSE None

\* the if/elif chain: the (severity, alert) pair it leaves, None for
\* (None, None), or the exception it raises
threshold_chain(ranges, test_name, value) ==
    LET panic == PyGet(ranges, "panic", EmptyDict)
        pl == CondLow(PyGet(panic, "low", None), value)
        ph == CondHigh(PyGet(panic, "high", None), value)
        cl == CondLow(PyGet(ranges, "low", None), value)
        ch == CondHigh(PyGet(ranges, "high", None), value)
    IN  IF pl = "E" THEN Raised("TypeError")
        ELSE IF pl = "T" THEN
            [severity |-> "CRITICAL",
             alert |-> FormatMessage("PANIC LOW", test_name, value, ranges.unit, "<", panic.low)]
        ELSE IF ph = "E" THEN Raised("TypeError")
        ELSE IF ph = "T" THEN
            [severity |-> "CRITICAL",
             alert |-> FormatMessage("PANIC HIGH", test_name, value, ranges.unit, ">", panic.high)]
        ELSE IF cl = "E" THEN Raised("TypeError")
        ELSE IF cl = "T" THEN
            [severity |-> "HIGH",
             alert |-> FormatMessage("CRITICAL LOW", test_name, value, ranges.unit, "<", ranges.low)]
        ELSE IF ch = "E" THEN Raised("TypeError")
        ELSE IF ch = "T" THEN
            [severity |-> "HIGH",
             alert |-> FormatMessage("CRITICAL HIGH", test_name, value, ranges.unit, ">", ranges.high)]
        ELSE None

\* isinstance(ranges.get("alert"), bool)
IsBooleanAlert(ranges) == "alert" \in DOMAIN ranges /\ ranges.alert \in BOOLEAN

\* lines 90-127: the test is in the table
classify_known(ranges, test_name, value, patient_id) ==
    IF IsBooleanAlert(ranges)
    THEN [severity |-> PyGet(ranges, "priority", "HIGH"), test |-> test_name]
    ELSE LET found == threshold_chain(ranges, test_name, value) IN
        IF IsRaised(found) THEN found
        ELSE IF found = None THEN None
        ELSE [patient_id |-> patient_id,
              test |-> test_name,
              value |-> value,
              unit |-> PyGet(ranges, "unit", ""),
              severity |-> found.severity,
              message |-> found.alert,
              timestamp |-> now]

\* faulty variant: the table indexed without the membership test
check_critical_value_unchecked(test_name, value, patient_id) ==
    IF test_name \notin DOMAIN critical_ranges THEN Raised("KeyError")
    ELSE classify_known(critical_ranges[test_name], test_name, value, patient_id)

check_critical_value(test_name, value, patient_id) ==
    IF test_name \notin DOMAIN critical_ranges THEN None
    ELSE classify_known(critical_ranges[test_name], test_name, value, patient_id)

-----------------------------------------------------------------------------
(* send_alert *)

\* notify_contact(role, alert): the call is logged
notify_contact(log, role, alert) == Append(log, <<role, alert>>)

\* the notification system behind notify_contact raises for this role
NotificationFails(role) == role \in channel_down

\* for contact_role in roles: notify_contact(contact_role, alert)
\* the calls made, and whether one of them raised and ended the loop
RECURSIVE notify_each(_, _, _)
notify_each(log, roles, alert) ==
    IF roles = <<>> THEN [log |-> log, raised |-> FALSE]
    ELSE LET called == notify_contact(log, Head(roles), alert) IN
        IF NotificationFails(Head(roles))
        THEN [log |-> called, raised |-> TRUE]
        ELSE notify_each(called, Tail(roles), alert)

\* schedule_escalation(alert, escalation): the call is logged
schedule_escalation(log, alert, escalation) ==
    Append(log, [alert |-> alert, minutes |-> escalation.escalation_time])

\* faulty variant: the alert recorded only once its policy is found
send_alert_lookup_first(history, notified, scheduled, alert) ==
    IF "message" \notin DOMAIN alert \/ "severity" \notin DOMAIN alert
       \/ PyGet(escalation_matrix, alert.severity, None) = None
    THEN [history |-> history, notified |-> notified, scheduled |-> scheduled,
          ret |-> FALSE]
    ELSE LET escalation == escalation_matrix[alert.severity]
             sent == notify_each(notified, escalation.primary, alert)
         IN  IF sent.raised
             THEN [history |-> Append(history, alert), notified |-> sent.log,
                   scheduled |-> scheduled, ret |-> FALSE]
             ELSE [history |-> Append(history, alert), notified |-> sent.log,
                   scheduled |-> schedule_escalation(scheduled, alert, escalation),
                   ret |-> TRUE]

\* faulty variant: a notification that raises is passed over
send_alert_swallowing(history, notified, scheduled, alert) ==
    IF "message" \notin DOMAIN alert
    THEN [history |-> history, notified |-> notified, scheduled |-> scheduled,
          ret |-> FALSE]
    ELSE IF "severity" \notin DOMAIN alert
            \/ PyGet(escalation_matrix, alert.severity, None) = None
    THEN [history |-> Append(history, alert), notified |-> notified,
          scheduled |-> scheduled, ret |-> FALSE]
    ELSE LET escalation == escalation_matrix[alert.severity]
             sent == notify_each(notified, escalation.primary, alert)
         IN  [history |-> Append(history, alert), notified |-> sent.log,
              scheduled |-> schedule_escalation(scheduled, alert, escalation),
              ret |-> TRUE]

\* faulty variant: the newest alert put first
record_newest_first(history, alert) == <<alert>> \o history

\* self.alert_history.append(alert)
record(history, alert) == Append(history, alert)

\* send_alert(alert) from the engine state (history, notified, scheduled):
\* the state it leaves and what it returns
send_alert(history, notified, scheduled, alert) ==
    IF "message" \notin DOMAIN alert
    THEN \* alert['message'] raises KeyError before the append
         [history |-> history, notified |-> notified, scheduled |-> scheduled,
          ret |-> FALSE]
    ELSE LET appended == record(history, alert) IN
        IF "severity" \notin DOMAIN alert
        THEN \* alert["severity"] raises KeyError
             [history |-> appended, notified |-> notified,
              scheduled |-> scheduled, ret |-> FALSE]
        ELSE LET escalation == PyGet(escalation_matrix, alert.severity, None) IN
            IF escalation = None
            THEN \* escalation["primary"] raises TypeError
                 [history |-> appended, notified |-> notified,
                  scheduled |-> scheduled, ret |-> FALSE]
            ELSE LET sent == notify_each(notified, escalation.primary, alert) IN
                IF sent.raised
                THEN \* the exception of notify_contact leaves the loop
                     [history |-> appended, notified |-> sent.log,
                      scheduled |-> scheduled, ret |-> FALSE]
                ELSE [history |-> appended,
                      notified |-> sent.log,
                      scheduled |-> schedule_escalation(scheduled, alert, escalation),
                      ret |-> TRUE]

-----------------------------------------------------------------------------
(* Inputs *)

\* the results of simulate_lab_results
test_results ==
    { [patient_id |-> "P001", test |-> "potassium",  value |-> 680],
      [patient_id |-> "P002", test |-> "glucose",    value |-> 3500],
      [patient_id |-> "P003", test |-> "hemoglobin", value |-> 650],
      [patient_id |-> "P004", test |-> "troponin",   value |-> 8],
      [patient_id |-> "P005", test |-> "ph",         value |-> 715] }

\* further results a feed can deliver: a panic value, a normal value, two
\* tests that are not in the table, a boolean-alert test
FeedResults ==
    test_results \cup
    { [patient_id |-> "P006", test |-> "sodium",       value |-> 16600],
      [patient_id |-> "P007", test |-> "glucose",      value |-> 9000],
      [patient_id |-> "P008", test |-> "unknown_test", value |-> 500],
      [patient_id |-> "P008", test |-> "Glucose",      value |-> 2000],
      [patient_id |-> "P009", test |-> "csf_positive", value |-> 1] }

\* alerts built by a caller of send_alert rather than by the classifier
ForeignAlerts ==
    { [patient_id |-> "P010", test |-> "glucose", value |-> 2500, unit |-> "mg/dL",
       severity |-> "PANIC",
       message |-> FormatMessage("PANIC LOW", "glucose", 2500, "mg/dL", "<", Num(3000)),
       timestamp |-> 0],
      [patient_id |-> "P011", test |-> "wbc", value |-> 3100, unit |-> "K/uL",
       severity |-> "MODERATE",
       message |-> FormatMessage("CRITICAL HIGH", "wbc", 3100, "K/uL", ">", Num(3000)),
       timestamp |-> 0],
      [patient_id |-> "P012", test |-> "ph",
       message |-> FormatMessage("CRITICAL LOW", "ph", 715, "", "<", Num(720))] }

IsAlert(x) == x # None /\ ~IsRaised(x)

\* what a caller can pass to send_alert: anything the classifier returns
\* for a feed result, or a foreign alert
AlertArgs ==
    { check_critical_value(r.test, r.value, r.patient_id) : r \in
        { q \in FeedResults : IsAlert(check_critical_value(q.test, q.value, q.patient_id)) } }
    \cup ForeignAlerts

\* the names a caller can ask about: the catalog's and two that are not in it
TestNames == DOMAIN load_critical_ranges \cup {"unknown_test", "Glucose"}

NumericTests == { t \in DOMAIN load_critical_ranges : ~IsBooleanAlert(load_critical_ranges[t]) }

\* the thresholds of a catalog entry that are numbers
Thresholds(ranges) ==
    { b.num : b \in { x \in {ranges.low, ranges.high, ranges.panic.low, ranges.panic.high} : x # None } }

\* the values a caller can ask about: every threshold of the catalog, its two
\* neighbours, the values of simulate_lab_results, zero, negative values and
\* a value beyond every threshold
Values ==
    UNION { { b - 1, b, b + 1 } : b \in UNION { Thresholds(load_critical_ranges[t]) : t \in NumericTests } }
    \cup { r.value : r \in FeedResults }
    \cup { 0, -1, -100000, 1000000 }

Patients == { "P001", "P002" }

-----------------------------------------------------------------------------
(* The engine and its monitor *)

\* no production runner in this process
NoRunner ==
    [pc |-> "off", process |-> "none", restart_count |-> 0, restarted |-> FALSE,
     stable_checks |-> 0, always_terminated |-> TRUE, attempts |-> 0, ended |-> "",
     signals |-> <<>>]

\* no dashboard session in this process
NoDashboard ==
    /\ critical_values = <<>>
    /\ selected_alert = 0
    /\ banner = ""
    /\ acked_before = FALSE

Init ==
    /\ critical_ranges = load_critical_ranges
    /\ escalation_matrix = setup_escalation_matrix
    /\ alert_history = <<>>
    /\ notify_log = <<>>
    /\ escalation_log = <<>>
    /\ now = 0
    /\ op = "init"
    /\ arg_test = ""
    /\ arg_value = 0
    /\ arg_patient = ""
    /\ check_result = None
    /\ sent_alert = None
    /\ send_result = None
    /\ metrics = None
    /\ channel_down = {}
    /\ program = "engine"
    /\ NoDashboard
    /\ sources = <<>>
    /\ runner = NoRunner

\* time passes
Tick ==
    /\ now < MaxClock
    /\ now' = now + 1
    /\ op' = "tick"
    /\ arg_test' = ""
    /\ arg_value' = 0
    /\ arg_patient' = ""
    /\ check_result' = None
    /\ sent_alert' = None
    /\ send_result' = None
    /\ metrics' = None
    /\ UNCHANGED <<critical_ranges, escalation_matrix, alert_history,
                   notify_log, escalation_log, outside_engine>>

\* faulty variant: the classifier records the alert it returns
CheckCriticalValueRecording(r) ==
    /\ op' = "check_critical_value"
    /\ arg_test' = r.test
    /\ arg_value' = r.value
    /\ arg_patient' = r.patient_id
    /\ check_result' = check_critical_value(r.test, r.value, r.patient_id)
    /\ sent_alert' = None
    /\ send_result' = None
    /\ metrics' = None
    /\ alert_history' =
          IF IsAlert(check_critical_value(r.test, r.value, r.patient_id))
          THEN Append(alert_history, check_critical_value(r.test, r.value, r.patient_id))
          ELSE alert_history
    /\ UNCHANGED <<critical_ranges, escalation_matrix,
                   notify_log, escalation_log, now, outside_engine>>

\* engine.check_critical_value(test, value, patient_id)
CheckCriticalValue(r) ==
    /\ op' = "check_critical_value"
    /\ arg_test' = r.test
    /\ arg_value' = r.value
    /\ arg_patient' = r.patient_id
    /\ check_result' = check_critical_value(r.test, r.value, r.patient_id)
    /\ sent_alert' = None
    /\ send_result' = None
    /\ metrics' = None
    /\ UNCHANGED <<critical_ranges, escalation_matrix, alert_history,
                   notify_log, escalation_log, now, outside_engine>>

\* engine.send_alert(alert)
SendAlert(alert) ==
    /\ Len(alert_history) < MaxHistory
    /\ LET out == send_alert(alert_history, notify_log, escalation_log, alert) IN
        /\ alert_history' = out.history
        /\ notify_log' = out.notified
        /\ escalation_log' = out.scheduled
        /\ send_result' = PyBool(out.ret)
    /\ op' = "send_alert"
    /\ sent_alert' = alert
    /\ arg_test' = ""
    /\ arg_value' = 0
    /\ arg_patient' = ""
    /\ check_result' = None
    /\ metrics' = None
    /\ UNCHANGED <<critical_ranges, escalation_matrix, now, outside_engine>>

\* one result of the monitor's loop: classify it and, if that gives an
\* alert, send the alert
ProcessResult(r) ==
    /\ Len(alert_history) < MaxHistory
    /\ LET alert == check_critical_value(r.test, r.value, r.patient_id) IN
        /\ check_result' = alert
        /\ IF IsAlert(alert)
           THEN LET out == send_alert(alert_history, notify_log, escalation_log, alert) IN
                /\ alert_history' = out.history
                /\ notify_log' = out.notified
                /\ escalation_log' = out.scheduled
                /\ send_result' = PyBool(out.ret)
                /\ sent_alert' = alert
           ELSE /\ UNCHANGED <<alert_history, notify_log, escalation_log>>
                /\ sent_alert' = None
                /\ send_result' = None
    /\ op' = "process_result"
    /\ arg_test' = r.test
    /\ arg_value' = r.value
    /\ arg_patient' = r.patient_id
    /\ metrics' = None
    /\ UNCHANGED <<critical_ranges, escalation_matrix, now, outside_engine>>

Next ==
    \/ Tick
    \/ \E r \in FeedResults : CheckCriticalValue(r)
    \/ \E alert \in AlertArgs : SendAlert(alert)
    \/ \E r \in FeedResults : ProcessResult(r)

Spec == Init /\ [][Next]_vars

\* the engine's process goes on running: an operation that can be called is
\* called sooner or later
SpecLive == Spec /\ WF_vars(Next)

-----------------------------------------------------------------------------
(* The classifier alone, over every test name and value *)

InitClassify ==
    /\ critical_ranges = load_critical_ranges
    /\ escalation_matrix = setup_escalation_matrix
    /\ alert_history = <<>>
    /\ notify_log = <<>>
    /\ escalation_log = <<>>
    /\ now \in 0..MaxClock
    /\ op = "init"
    /\ arg_test \in TestNames
    /\ arg_value \in Values
    /\ arg_patient \in Patients
    /\ check_result = None
    /\ sent_alert = None
    /\ send_result = None
    /\ metrics = None
    /\ channel_down = {}
    /\ program = "engine"
    /\ NoDashboard
    /\ sources = <<>>
    /\ runner = NoRunner

Classify ==
    /\ op = "init"
    /\ op' = "check_critical_value"
    /\ check_result' = check_critical_value(arg_test, arg_value, arg_patient)
    /\ UNCHANGED <<critical_ranges, escalation_matrix, alert_history, notify_log,
                   escalation_log, now, arg_test, arg_value, arg_patient,
                   sent_alert, send_result, metrics, outside_engine>>

NextClassify == Classify

SpecClassify == InitClassify /\ [][NextClassify]_vars

-----------------------------------------------------------------------------
(* The engine when the notification system behind notify_contact can fail *)

\* the primary roles of the CRITICAL and HIGH policies
FailingRoles == {"attending_physician", "charge_nurse"}

InitNotify ==
    /\ critical_ranges = load_critical_ranges
    /\ escalation_matrix = setup_escalation_matrix
    /\ alert_history = <<>>
    /\ notify_log = <<>>
    /\ escalation_log = <<>>
    /\ now = 0
    /\ op = "init"
    /\ arg_test = ""
    /\ arg_value = 0
    /\ arg_patient = ""
    /\ check_result = None
    /\ sent_alert = None
    /\ send_result = None
    /\ metrics = None
    /\ channel_down \in SUBSET FailingRoles
    /\ program = "engine"
    /\ NoDashboard
    /\ sources = <<>>
    /\ runner = NoRunner

NextNotify ==
    \/ \E alert \in AlertArgs : SendAlert(alert)
    \/ \E r \in FeedResults : ProcessResult(r)

SpecNotify == InitNotify /\ [][NextNotify]_vars

-----------------------------------------------------------------------------
(* One caller in a call of send_alert, taken one statement at a time, when  *)
(* the notification system behind notify_contact can fail.  sources[1] is   *)
(* the caller: the statement it is at (pc), the local variable escalation,  *)
(* its place in the loop over the primary list (role), the ledger and the   *)
(* two logs as they were when it called (before), and what the call has     *)
(* done to the engine and to its collaborators, in the order in which it    *)
(* did it (effects).  The alert of the call is sent_alert and what the call *)
(* returned is send_result.                                                 *)

\* faulty variant: the alert recorded once its contacts are notified
send_alert_body_notify_first ==
    <<"log", "lookup", "notify", "append", "schedule", "return">>

\* the statements of the try block of send_alert in the order of the code:
\* the log line (133), the append (134), the lookup of the policy (137),
\* the loop over the primary list (140-141), schedule_escalation (144),
\* return True (146)
send_alert_body ==
    <<"log", "append", "lookup", "notify", "schedule", "return">>

\* the statement that is executed after statement st has completed
statement_after(st) ==
    send_alert_body[(CHOOSE i \in DOMAIN send_alert_body : send_alert_body[i] = st) + 1]

\* one thing the call has done: the append to the ledger, a notify_contact
\* call, the schedule_escalation call
Effect(call, role, alert) == [call |-> call, to |-> role, alert |-> alert]

InitSendSteps ==
    /\ critical_ranges = load_critical_ranges
    /\ escalation_matrix = setup_escalation_matrix
    /\ alert_history = <<>>
    /\ notify_log = <<>>
    /\ escalation_log = <<>>
    /\ now = 0
    /\ op = "init"
    /\ arg_test = ""
    /\ arg_value = 0
    /\ arg_patient = ""
    /\ check_result = None
    /\ sent_alert = None
    /\ send_result = None
    /\ metrics = None
    /\ channel_down \in SUBSET FailingRoles
    /\ program = "engine"
    /\ NoDashboard
    /\ runner = NoRunner
    /\ sources = << [pc |-> "idle", escalation |-> None, role |-> 1,
                     before |-> [history |-> <<>>, notified |-> <<>>,
                                 scheduled |-> <<>>],
                     effects |-> <<>>] >>

steps_frame ==
    UNCHANGED <<critical_ranges, escalation_matrix, now, arg_test, arg_value,
                arg_patient, check_result, metrics, channel_down, program,
                dashboard_vars, runner>>

\* engine.send_alert(alert) is called, line 129
CallSendAlert(alert) ==
    /\ sources[1].pc \in {"idle", "returned"}
    /\ Len(alert_history) < MaxHistory
    /\ sent_alert' = alert
    /\ send_result' = None
    /\ sources' = << [pc |-> send_alert_body[1], escalation |-> None, role |-> 1,
                      before |-> [history |-> alert_history, notified |-> notify_log,
                                  scheduled |-> escalation_log],
                      effects |-> <<>>] >>
    /\ op' = "call_send_alert"
    /\ UNCHANGED <<alert_history, notify_log, escalation_log>>
    /\ steps_frame

\* line 133: the log line reads alert['message'], KeyError without it
StatementLog ==
    /\ sources[1].pc = "log"
    /\ sources' = [sources EXCEPT ![1].pc = IF "message" \in DOMAIN sent_alert
                                            THEN statement_after("log")
                                            ELSE "except"]
    /\ op' = "log"
    /\ UNCHANGED <<alert_history, notify_log, escalation_log, sent_alert, send_result>>
    /\ steps_frame

\* line 134: self.alert_history.append(alert)
StatementAppend ==
    /\ sources[1].pc = "append"
    /\ alert_history' = record(alert_history, sent_alert)
    /\ sources' = [sources EXCEPT ![1].pc = statement_after("append"),
                                  ![1].effects = Append(@, Effect("append", "", sent_alert))]
    /\ op' = "append"
    /\ UNCHANGED <<notify_log, escalation_log, sent_alert, send_result>>
    /\ steps_frame

\* line 137: escalation = self.escalation_matrix.get(alert["severity"]),
\* KeyError without a severity
StatementLookup ==
    /\ sources[1].pc = "lookup"
    /\ IF "severity" \in DOMAIN sent_alert
       THEN sources' = [sources EXCEPT
                           ![1].pc = statement_after("lookup"),
                           ![1].escalation = PyGet(escalation_matrix, sent_alert.severity, None)]
       ELSE sources' = [sources EXCEPT ![1].pc = "except"]
    /\ op' = "lookup"
    /\ UNCHANGED <<alert_history, notify_log, escalation_log, sent_alert, send_result>>
    /\ steps_frame

\* lines 140-141: one turn of the loop over escalation["primary"]: TypeError
\* when escalation is None, the next statement when the list is exhausted,
\* else one notify_contact call, whose exception leaves the loop
StatementNotify ==
    /\ sources[1].pc = "notify"
    /\ IF sources[1].escalation = None
       THEN /\ sources' = [sources EXCEPT ![1].pc = "except"]
            /\ UNCHANGED notify_log
       ELSE IF sources[1].role > Len(sources[1].escalation.primary)
       THEN /\ sources' = [sources EXCEPT ![1].pc = statement_after("notify")]
            /\ UNCHANGED notify_log
       ELSE LET contact_role == sources[1].escalation.primary[sources[1].role] IN
            /\ notify_log' = notify_contact(notify_log, contact_role, sent_alert)
            /\ sources' = [sources EXCEPT
                              ![1].pc = IF NotificationFails(contact_role)
                                        THEN "except" ELSE @,
                              ![1].role = @ + 1,
                              ![1].effects = Append(@, Effect("notify", contact_role, sent_alert))]
    /\ op' = "notify"
    /\ UNCHANGED <<alert_history, escalation_log, sent_alert, send_result>>
    /\ steps_frame

\* line 144: self.schedule_escalation(alert, escalation)
StatementSchedule ==
    /\ sources[1].pc = "schedule"
    /\ escalation_log' = schedule_escalation(escalation_log, sent_alert, sources[1].escalation)
    /\ sources' = [sources EXCEPT ![1].pc = statement_after("schedule"),
                                  ![1].effects = Append(@, Effect("schedule", "", sent_alert))]
    /\ op' = "schedule"
    /\ UNCHANGED <<alert_history, notify_log, sent_alert, send_result>>
    /\ steps_frame

\* line 146: return True
StatementReturn ==
    /\ sources[1].pc = "return"
    /\ sources' = [sources EXCEPT ![1].pc = "returned"]
    /\ send_result' = PyBool(TRUE)
    /\ op' = "return"
    /\ UNCHANGED <<alert_history, notify_log, escalation_log, sent_alert>>
    /\ steps_frame

\* lines 148-150: the exception is logged and the call returns False
StatementExcept ==
    /\ sources[1].pc = "except"
    /\ sources' = [sources EXCEPT ![1].pc = "returned"]
    /\ send_result' = PyBool(FALSE)
    /\ op' = "except"
    /\ UNCHANGED <<alert_history, notify_log, escalation_log, sent_alert>>
    /\ steps_frame

NextSendSteps ==
    \/ \E alert \in AlertArgs : CallSendAlert(alert)
    \/ StatementLog
    \/ StatementAppend
    \/ StatementLookup
    \/ StatementNotify
    \/ StatementSchedule
    \/ StatementReturn
    \/ StatementExcept

SpecSendSteps == InitSendSteps /\ [][NextSendSteps]_vars

-----------------------------------------------------------------------------
(* The dashboard (src/critical_values_alert_system.py), a Streamlit script  *)
(* that is run again on every click.  A row of the table keeps the columns  *)
(* that an operation reads or writes: Test_ID, Acknowledged, Escalated.     *)

\* the tables generate_critical_values can return: Test_ID is 1..n and the
\* two flags are drawn at random
GeneratedTables ==
    { t \in [1..NSamples -> [Test_ID : 1..NSamples, Acknowledged : BOOLEAN, Escalated : BOOLEAN]] :
        \A i \in 1..NSamples : t[i].Test_ID = i }

\* faulty variant: the click toggles the flag
acknowledge_toggle(table, test_id) ==
    [i \in DOMAIN table |->
        IF table[i].Test_ID = test_id
        THEN [table[i] EXCEPT !.Acknowledged = ~table[i].Acknowledged]
        ELSE table[i]]

\* critical_values.loc[critical_values['Test_ID'] == test_id, 'Acknowledged'] = True
acknowledge(table, test_id) ==
    [i \in DOMAIN table |->
        IF table[i].Test_ID = test_id
        THEN [table[i] EXCEPT !.Acknowledged = TRUE]
        ELSE table[i]]

\* critical_values.loc[critical_values['Test_ID'] == test_id, 'Escalated'] = True
escalate(table, test_id) ==
    [i \in DOMAIN table |->
        IF table[i].Test_ID = test_id
        THEN [table[i] EXCEPT !.Escalated = TRUE]
        ELSE table[i]]

\* Acknowledged of the rows with this Test_ID
IsAcknowledged(table, test_id) ==
    \E i \in DOMAIN table : table[i].Test_ID = test_id /\ table[i].Acknowledged

\* the engine's variables in a process that runs the dashboard
EngineIdle ==
    /\ critical_ranges = load_critical_ranges
    /\ escalation_matrix = setup_escalation_matrix
    /\ alert_history = <<>>
    /\ notify_log = <<>>
    /\ escalation_log = <<>>
    /\ now = 0
    /\ arg_test = ""
    /\ arg_value = 0
    /\ arg_patient = ""
    /\ check_result = None
    /\ sent_alert = None
    /\ send_result = None
    /\ metrics = None
    /\ channel_down = {}
    /\ sources = <<>>

engine_vars == <<critical_ranges, escalation_matrix, alert_history, notify_log,
                 escalation_log, now, arg_test, arg_value, arg_patient,
                 check_result, sent_alert, send_result, metrics, channel_down,
                 sources, runner>>

\* the first run of the script: the table is generated and the selectbox
\* shows its first option
InitDashboard ==
    /\ EngineIdle
    /\ runner = NoRunner
    /\ program = "dashboard"
    /\ op = "init"
    /\ critical_values \in GeneratedTables
    /\ selected_alert = 1
    /\ banner = ""
    /\ acked_before = FALSE

\* the sidebar button "Generate New Alerts"
GenerateNewAlerts ==
    /\ critical_values' \in GeneratedTables
    /\ op' = "generate"
    /\ banner' = ""
    /\ acked_before' = FALSE
    /\ UNCHANGED <<selected_alert, program, engine_vars>>

\* the selectbox "Select Alert to Manage"
SelectAlert(test_id) ==
    /\ selected_alert' = test_id
    /\ op' = "select"
    /\ banner' = ""
    /\ acked_before' = FALSE
    /\ UNCHANGED <<critical_values, program, engine_vars>>

\* the button "Acknowledge Alert"
AcknowledgeAlert ==
    /\ selected_alert # 0
    /\ critical_values' = acknowledge(critical_values, selected_alert)
    /\ op' = "acknowledge"
    /\ banner' = "Alert acknowledged!"
    /\ acked_before' = IsAcknowledged(critical_values, selected_alert)
    /\ UNCHANGED <<selected_alert, program, engine_vars>>

\* the button "Escalate Alert"
EscalateAlert ==
    /\ selected_alert # 0
    /\ critical_values' = escalate(critical_values, selected_alert)
    /\ op' = "escalate"
    /\ banner' = "Alert escalated!"
    /\ acked_before' = IsAcknowledged(critical_values, selected_alert)
    /\ UNCHANGED <<selected_alert, program, engine_vars>>

NextDashboard ==
    \/ GenerateNewAlerts
    \/ \E test_id \in 1..NSamples : SelectAlert(test_id)
    \/ AcknowledgeAlert
    \/ EscalateAlert

SpecDashboard == InitDashboard /\ [][NextDashboard]_vars

-----------------------------------------------------------------------------
(* Either program: a process runs the engine or it runs the dashboard *)

InitSystem == Init \/ InitDashboard

NextSystem ==
    \/ program = "engine" /\ Next
    \/ program = "dashboard" /\ NextDashboard

SpecSystem == InitSystem /\ [][NextSystem]_vars

-----------------------------------------------------------------------------
(* generate_alert_summary and calculate_metrics.  A DataFrame is the         *)
(* sequence of its rows; a cell that a row's dict has no key for is NaN.     *)

\* the float nan, which equals no string of the ledger
NaN == "nan"

\* the columns of pd.DataFrame(history): every key of every dict
Columns(history) == UNION { DOMAIN history[i] : i \in DOMAIN history }

RECURSIVE SumNums(_)
SumNums(cells) ==
    IF cells = <<>> THEN 0 ELSE Head(cells).num + SumNums(Tail(cells))

\* Series.mean(): the null cells are skipped, and the mean of none is NaN
mean(column) ==
    LET present == SelectSeq(column, LAMBDA c : c # None) IN
    IF present = <<>> THEN NaN ELSE Num(SumNums(present) \div Len(present))

\* one row of the summary: the alert's cells, then lines 179-180 write False
\* and None over the two added columns
summary_row(alert, columns) ==
    [k \in columns \cup {"acknowledged", "response_time_minutes"} |->
        IF k = "acknowledged" THEN FALSE
        ELSE IF k = "response_time_minutes" THEN None
        ELSE IF k \in DOMAIN alert THEN alert[k]
        ELSE NaN]

generate_alert_summary(history) ==
    IF history = <<>> THEN [rows |-> <<>>]
    ELSE IF "timestamp" \notin Columns(history) THEN Raised("KeyError")
    ELSE [rows |-> [i \in DOMAIN history |-> summary_row(history[i], Columns(history))]]

\* len(df[df['severity'] == s])
CountSeverity(rows, s) == Cardinality({ i \in DOMAIN rows : rows[i].severity = s })

\* df['acknowledged'].sum()
SumAcknowledged(rows) == Cardinality({ i \in DOMAIN rows : rows[i].acknowledged })

\* the rate is in percent; the model keeps its whole part
calculate_metrics(history) ==
    IF history = <<>> THEN EmptyDict
    ELSE LET df == generate_alert_summary(history) IN
         IF IsRaised(df) THEN df
         ELSE IF "severity" \notin Columns(history) THEN Raised("KeyError")
         ELSE [total_alerts |-> Len(df.rows),
               critical_alerts |-> CountSeverity(df.rows, "CRITICAL"),
               high_alerts |-> CountSeverity(df.rows, "HIGH"),
               average_response_time |->
                   mean([i \in DOMAIN df.rows |-> df.rows[i].response_time_minutes]),
               acknowledgment_rate |->
                   IF Len(df.rows) > 0
                   THEN (SumAcknowledged(df.rows) * 100) \div Len(df.rows)
                   ELSE 0]

\* an alert that the acknowledgment system has marked before it is recorded
AcknowledgedAlerts ==
    { [patient_id |-> "P006", test |-> "sodium", value |-> 16600, unit |-> "mEq/L",
       severity |-> "CRITICAL",
       message |-> FormatMessage("PANIC HIGH", "sodium", 16600, "mEq/L", ">", Num(16500)),
       timestamp |-> 0, acknowledged |-> TRUE] }

MetricsAlerts == AlertArgs \cup AcknowledgedAlerts

CalculateMetrics ==
    /\ metrics' = calculate_metrics(alert_history)
    /\ op' = "calculate_metrics"
    /\ arg_test' = ""
    /\ arg_value' = 0
    /\ arg_patient' = ""
    /\ check_result' = None
    /\ sent_alert' = None
    /\ send_result' = None
    /\ UNCHANGED <<critical_ranges, escalation_matrix, alert_history, notify_log,
                   escalation_log, now, outside_engine>>

NextMetrics ==
    \/ \E alert \in MetricsAlerts : SendAlert(alert)
    \/ CalculateMetrics

SpecMetrics == Init /\ [][NextMetrics]_vars

-----------------------------------------------------------------------------
(* The classifier on a catalog that has a definition with a bound of 0 *)

\* a numeric definition with one bound, which is 0
ZeroBoundEntries ==
    { [low |-> Num(0), high |-> None, unit |-> "mmol/L",
       panic |-> [low |-> None, high |-> None]],
      [low |-> None, high |-> Num(0), unit |-> "mmol/L",
       panic |-> [low |-> None, high |-> None]],
      [low |-> None, high |-> None, unit |-> "mmol/L",
       panic |-> [low |-> Num(0), high |-> None]],
      [low |-> None, high |-> None, unit |-> "mmol/L",
       panic |-> [low |-> None, high |-> Num(0)]] }

\* engine.critical_ranges["base_excess"] = entry
WithDefinition(table, test_name, entry) ==
    [t \in DOMAIN table \cup {test_name} |-> IF t = test_name THEN entry ELSE table[t]]

ZeroBoundValues == { -500, -1, 0, 1, 500 }

InitZeroBound ==
    /\ critical_ranges \in
          { WithDefinition(load_critical_ranges, "base_excess", e) : e \in ZeroBoundEntries }
    /\ escalation_matrix = setup_escalation_matrix
    /\ alert_history = <<>>
    /\ notify_log = <<>>
    /\ escalation_log = <<>>
    /\ now \in 0..MaxClock
    /\ op = "init"
    /\ arg_test \in {"base_excess", "glucose"}
    /\ arg_value \in ZeroBoundValues
    /\ arg_patient \in Patients
    /\ check_result = None
    /\ sent_alert = None
    /\ send_result = None
    /\ metrics = None
    /\ channel_down = {}
    /\ program = "engine"
    /\ NoDashboard
    /\ sources = <<>>
    /\ runner = NoRunner

SpecZeroBound == InitZeroBound /\ [][NextClassify]_vars

-----------------------------------------------------------------------------
(* The four operations of the engine called in any order by one caller *)

\* engine.generate_alert_summary()
GenerateAlertSummary ==
    /\ metrics' = generate_alert_summary(alert_history)
    /\ op' = "generate_alert_summary"
    /\ arg_test' = ""
    /\ arg_value' = 0
    /\ arg_patient' = ""
    /\ check_result' = None
    /\ sent_alert' = None
    /\ send_result' = None
    /\ UNCHANGED <<critical_ranges, escalation_matrix, alert_history, notify_log,
                   escalation_log, now, outside_engine>>

NextEngine ==
    \/ \E r \in FeedResults : CheckCriticalValue(r)
    \/ \E alert \in MetricsAlerts : SendAlert(alert)
    \/ GenerateAlertSummary
    \/ CalculateMetrics

SpecEngine == Init /\ [][NextEngine]_vars

-----------------------------------------------------------------------------
(* Several ingestion sources, each a thread in a call of send_alert on the   *)
(* same engine.  A step is what a thread does without another thread being   *)
(* able to run in between: the load of self.alert_history, the call of       *)
(* list.append (atomic in CPython), the lookup of the policy, one            *)
(* notify_contact, schedule_escalation.                                      *)

\* the alerts the sources record: one with two primary roles, one with one,
\* one whose severity has no policy
ConcurrentAlerts ==
    { a \in ForeignAlerts : "severity" \in DOMAIN a }
    \cup { [patient_id |-> "P006", test |-> "sodium", value |-> 16600, unit |-> "mEq/L",
            severity |-> "CRITICAL",
            message |-> FormatMessage("PANIC HIGH", "sodium", 16600, "mEq/L", ">", Num(16500)),
            timestamp |-> 0] }

InitConcurrent ==
    /\ critical_ranges = load_critical_ranges
    /\ escalation_matrix = setup_escalation_matrix
    /\ alert_history = <<>>
    /\ notify_log = <<>>
    /\ escalation_log = <<>>
    /\ now = 0
    /\ op = "init"
    /\ arg_test = ""
    /\ arg_value = 0
    /\ arg_patient = ""
    /\ check_result = None
    /\ sent_alert = None
    /\ send_result = None
    /\ metrics = None
    /\ channel_down = {}
    /\ program = "engine"
    /\ NoDashboard
    /\ runner = NoRunner
    /\ sources \in [1..NumSources ->
          [pc : {"load"}, alert : ConcurrentAlerts, loaded : {<<>>},
           turn : {0}, role : {0}, ret : {None}]]

\* faulty variant: self.alert_history = self.alert_history + [alert]
append_to_copy(current, loaded, alert) == Append(loaded, alert)

\* self.alert_history.append(alert): the list that was loaded is the
\* engine's list itself, and the alert goes to its end as it is now
append_in_place(current, loaded, alert) == record(current, alert)

\* how many sources have appended
Appended == Cardinality({ t \in DOMAIN sources : sources[t].turn > 0 })

concurrent_frame ==
    UNCHANGED <<critical_ranges, escalation_matrix, now, arg_test, arg_value,
                arg_patient, check_result, sent_alert, send_result, metrics,
                channel_down, program, dashboard_vars, runner>>

\* lines 133-134: the message is logged and self.alert_history is loaded
SourceLoad(s) ==
    /\ sources[s].pc = "load"
    /\ sources' = [sources EXCEPT ![s].pc = "append", ![s].loaded = alert_history]
    /\ op' = "load"
    /\ UNCHANGED <<alert_history, notify_log, escalation_log>>
    /\ concurrent_frame

\* line 134: .append(alert)
SourceAppend(s) ==
    /\ sources[s].pc = "append"
    /\ alert_history' = append_in_place(alert_history, sources[s].loaded, sources[s].alert)
    /\ sources' = [sources EXCEPT ![s].pc = "lookup", ![s].turn = Appended + 1]
    /\ op' = "append"
    /\ UNCHANGED <<notify_log, escalation_log>>
    /\ concurrent_frame

\* lines 137-140: the policy is looked up; without one the call returns False
SourceLookup(s) ==
    /\ sources[s].pc = "lookup"
    /\ IF PyGet(escalation_matrix, sources[s].alert.severity, None) = None
       THEN sources' = [sources EXCEPT ![s].pc = "done", ![s].ret = PyBool(FALSE)]
       ELSE sources' = [sources EXCEPT ![s].pc = "notify", ![s].role = 1]
    /\ op' = "lookup"
    /\ UNCHANGED <<alert_history, notify_log, escalation_log>>
    /\ concurrent_frame

\* lines 140-141: one turn of the loop over the primary list
SourceNotify(s) ==
    /\ sources[s].pc = "notify"
    /\ LET primary == escalation_matrix[sources[s].alert.severity].primary IN
        /\ notify_log' = notify_contact(notify_log, primary[sources[s].role], sources[s].alert)
        /\ IF sources[s].role < Len(primary)
           THEN sources' = [sources EXCEPT ![s].role = @ + 1]
           ELSE sources' = [sources EXCEPT ![s].pc = "schedule"]
    /\ op' = "notify"
    /\ UNCHANGED <<alert_history, escalation_log>>
    /\ concurrent_frame

\* lines 144-146: the escalation is scheduled and the call returns True
SourceSchedule(s) ==
    /\ sources[s].pc = "schedule"
    /\ escalation_log' = schedule_escalation(escalation_log, sources[s].alert,
                             escalation_matrix[sources[s].alert.severity])
    /\ sources' = [sources EXCEPT ![s].pc = "done", ![s].ret = PyBool(TRUE)]
    /\ op' = "schedule"
    /\ UNCHANGED <<alert_history, notify_log>>
    /\ concurrent_frame

NextConcurrent ==
    \E s \in DOMAIN sources :
        \/ SourceLoad(s)
        \/ SourceAppend(s)
        \/ SourceLookup(s)
        \/ SourceNotify(s)
        \/ SourceSchedule(s)

SpecConcurrent == InitConcurrent /\ [][NextConcurrent]_vars

-----------------------------------------------------------------------------
(* The production runner (src/run_production.py).                            *)
(*                                                                           *)
(* restart_count is a float that goes up by 1 and down by 0.1; the model     *)
(* counts it in tenths.  The repeated subtraction of 0.1 leaves a rounding   *)
(* error of some 1e-15, which decides the test restart_count < max_restarts  *)
(* when the count is 5 to the tenth: it can go either way.  The test         *)
(* restart_count > 0 on a count that is 0 to the tenth gives 0 both ways.    *)
(*                                                                           *)
(* Fields of runner that the program has: pc (where run() is), process       *)
(* (what self.process.poll() would give), restart_count.  Fields that        *)
(* observe the run: restarted (a restart was made in this cycle of the       *)
(* loop), stable_checks (checks in a row that found the child running),      *)
(* always_terminated (every check so far found the child terminated),        *)
(* attempts (restarts made while always_terminated, counted up to            *)
(* MaxAttempts), ended (why run() is over: "start_failed", "restart_failed", *)
(* "max_restarts", "interrupt" for a Ctrl+C that was caught and followed by  *)
(* a complete shutdown, "keyboard_interrupt" for a KeyboardInterrupt that    *)
(* left run()), signals (what shutdown() has called on the child).           *)

max_restarts == 5

\* 5 minutes of checks made every 5 seconds
StableChecks == 60

Tenths(n) == n * 10

Max(a, b) == IF a >= b THEN a ELSE b

Min(a, b) == IF a <= b THEN a ELSE b

\* self.restart_count < self.max_restarts, on the float
LessThanMax(count) ==
    IF count = Tenths(max_restarts) THEN {TRUE, FALSE} ELSE {count < Tenths(max_restarts)}

\* faulty variant: the count is set back to 0 at the end of every cycle
end_of_cycle_reset(count) == 0

\* lines 101-102
end_of_cycle(count) == IF count > 0 THEN Max(0, count - 1) ELSE count

InitRunner ==
    /\ EngineIdle
    /\ NoDashboard
    /\ program = "runner"
    /\ op = "init"
    /\ runner = [pc |-> "spawn", process |-> "none", restart_count |-> 0,
                 restarted |-> FALSE, stable_checks |-> 0,
                 always_terminated |-> TRUE, attempts |-> 0, ended |-> "",
                 signals |-> <<>>]

runner_frame == UNCHANGED <<critical_ranges, escalation_matrix, alert_history,
                            notify_log, escalation_log, now, arg_test, arg_value,
                            arg_patient, check_result, sent_alert, send_result,
                            metrics, channel_down, program, dashboard_vars, sources>>

\* start_streamlit, lines 37-60: the child is started
Spawn ==
    /\ runner.pc = "spawn"
    /\ runner' = [runner EXCEPT !.pc = "startup", !.process = "running"]
    /\ op' = "spawn"
    /\ runner_frame

\* the child process ends: by itself, on the terminate() or on the kill()
\* of shutdown.  It is a process of its own and can end at any point of
\* run(), and after run() is over.
ChildExits ==
    /\ runner.process = "running"
    /\ runner' = [runner EXCEPT !.process = "terminated"]
    /\ op' = "child_exits"
    /\ runner_frame

\* start_streamlit, lines 63-70, and what its caller does with the result:
\* run() goes on to monitor or exits (lines 123-127), monitor_and_restart
\* goes on to its sleep or leaves the loop (lines 88-92)
StartupPoll ==
    /\ runner.pc = "startup"
    /\ IF runner.process = "running"
       THEN runner' = [runner EXCEPT !.pc = IF runner.restarted THEN "sleep" ELSE "poll"]
       ELSE runner' = [runner EXCEPT !.pc = "exited",
                          !.ended = IF runner.restarted THEN "restart_failed"
                                                        ELSE "start_failed"]
    /\ op' = "startup_poll"
    /\ runner_frame

\* lines 78-95: one check of the child
Poll ==
    /\ runner.pc = "poll"
    /\ IF runner.process = "terminated"
       THEN \E below \in LessThanMax(runner.restart_count) :
              IF below
              THEN runner' = [runner EXCEPT !.pc = "spawn",
                                 !.restart_count = @ + Tenths(1),
                                 !.restarted = TRUE,
                                 !.stable_checks = 0,
                                 !.attempts = IF runner.always_terminated
                                              THEN Min(@ + 1, MaxAttempts) ELSE @]
              ELSE runner' = [runner EXCEPT !.pc = "exited", !.ended = "max_restarts",
                                 !.restarted = FALSE, !.stable_checks = 0]
       ELSE runner' = [runner EXCEPT !.pc = "sleep",
                          !.restarted = FALSE,
                          !.stable_checks = Min(@ + 1, StableChecks),
                          !.always_terminated = FALSE,
                          !.attempts = 0]
    /\ op' = "poll"
    /\ runner_frame

\* lines 98-102: the sleep of 5 seconds and the lowering of the count
EndOfCycle ==
    /\ runner.pc = "sleep"
    /\ runner' = [runner EXCEPT !.pc = "poll",
                     !.restart_count = end_of_cycle(runner.restart_count)]
    /\ op' = "end_of_cycle"
    /\ runner_frame

\* the code of run() that is inside the try of lines 76-106: the loop of
\* monitor_and_restart and the restarts it makes
InsideTry ==
    \/ runner.pc \in {"poll", "sleep"}
    \/ runner.pc \in {"spawn", "startup"} /\ runner.restarted

\* lines 104-106: Ctrl+C inside the try is caught and shutdown() is called
Interrupt ==
    /\ InsideTry
    /\ runner' = [runner EXCEPT !.pc = "shutdown"]
    /\ op' = "interrupt"
    /\ runner_frame

\* shutdown, lines 110-111: a child that is still running is sent
\* terminate(); for a child that has ended shutdown() does nothing
ShutdownTerminate ==
    /\ runner.pc = "shutdown"
    /\ IF runner.process = "running"
       THEN runner' = [runner EXCEPT !.pc = "terminate_sent",
                          !.signals = Append(@, "terminate")]
       ELSE runner' = [runner EXCEPT !.pc = "exited", !.ended = "interrupt"]
    /\ op' = "shutdown_terminate"
    /\ runner_frame

\* shutdown, lines 112-113: wait(timeout=5) is entered
ShutdownWait ==
    /\ runner.pc = "terminate_sent"
    /\ runner' = [runner EXCEPT !.pc = "wait", !.signals = Append(@, "wait")]
    /\ op' = "shutdown_wait"
    /\ runner_frame

\* shutdown, line 113: the child has ended within the 5 seconds
WaitReturns ==
    /\ runner.pc = "wait"
    /\ runner.process = "terminated"
    /\ runner' = [runner EXCEPT !.pc = "stopped"]
    /\ op' = "wait_returns"
    /\ runner_frame

\* shutdown, lines 114-115: the 5 seconds are over and kill() is called.
\* kill() sends the signal and returns at once: the child is still running
\* when shutdown() goes on, and ends later.
WaitTimesOut ==
    /\ runner.pc = "wait"
    /\ runner.process = "running"
    /\ runner' = [runner EXCEPT !.pc = "stopped",
                     !.signals = Append(@, "kill")]
    /\ op' = "wait_times_out"
    /\ runner_frame

\* shutdown, line 116: the last line is printed, shutdown() and run() return
PrintStopped ==
    /\ runner.pc = "stopped"
    /\ runner' = [runner EXCEPT !.pc = "exited", !.ended = "interrupt"]
    /\ op' = "print_stopped"
    /\ runner_frame

\* Ctrl+C where nothing catches it: during the first start (run() line 123
\* is outside the try) or at any point of shutdown() (called in the except
\* block of line 104).  KeyboardInterrupt leaves run() and the child stays
\* as it is.
KeyboardInterruptLeavesRun ==
    /\ \/ runner.pc \in {"spawn", "startup"} /\ ~runner.restarted
       \/ runner.pc \in {"shutdown", "terminate_sent", "wait", "stopped"}
    /\ runner' = [runner EXCEPT !.pc = "exited", !.ended = "keyboard_interrupt"]
    /\ op' = "keyboard_interrupt"
    /\ runner_frame

\* the steps of the runner itself
RunnerStep ==
    \/ Spawn
    \/ StartupPoll
    \/ Poll
    \/ EndOfCycle
    \/ ShutdownTerminate
    \/ ShutdownWait
    \/ WaitReturns
    \/ WaitTimesOut
    \/ PrintStopped

NextRunner ==
    \/ Spawn
    \/ ChildExits
    \/ StartupPoll
    \/ Poll
    \/ EndOfCycle
    \/ Interrupt
    \/ ShutdownTerminate
    \/ ShutdownWait
    \/ WaitReturns
    \/ WaitTimesOut
    \/ PrintStopped
    \/ KeyboardInterruptLeavesRun

SpecRunner == InitRunner /\ [][NextRunner]_vars

\* the runner's process is scheduled: a step it can take, it takes
SpecRunnerLive == SpecRunner /\ WF_vars(RunnerStep)

-----------------------------------------------------------------------------
(* Properties of check_critical_value, under SpecClassify *)

\* check_critical_value(arg_test, arg_value, arg_patient) has returned
Returned == op = "check_critical_value"

\* the severity of a returned alert, "" when there is none
SeverityOf(x) == IF IsAlert(x) /\ "severity" \in DOMAIN x THEN x.severity ELSE ""

\* the label that opens the message of a returned alert, "" when there is none
LabelOf(x) == IF IsAlert(x) /\ "message" \in DOMAIN x THEN x.message.label ELSE ""

IsNumericTest(t) == t \in DOMAIN critical_ranges /\ ~IsBooleanAlert(critical_ranges[t])

\* the four bounds of a numeric test, in the words of the specification
critical_low(t) == critical_ranges[t].low
critical_high(t) == critical_ranges[t].high
panic_low(t) == critical_ranges[t].panic.low
panic_high(t) == critical_ranges[t].panic.high

\* the call is about a numeric test and its value is beyond both high bounds
PastBothHigh ==
    /\ Returned /\ IsNumericTest(arg_test)
    /\ panic_high(arg_test) # None /\ critical_high(arg_test) # None
    /\ arg_value > panic_high(arg_test).num

\* the call is about a numeric test and its value is beyond both low bounds
PastBothLow ==
    /\ Returned /\ IsNumericTest(arg_test)
    /\ panic_low(arg_test) # None /\ critical_low(arg_test) # None
    /\ arg_value < panic_low(arg_test).num

\* C1 as stated: a value beyond panic_high (or below panic_low) gives one
\* alert whose severity is PANIC and is not CRITICAL.
C1_SeverityIsPanic ==
    (PastBothHigh \/ PastBothLow) =>
        /\ IsAlert(check_result)
        /\ SeverityOf(check_result) = "PANIC"
        /\ SeverityOf(check_result) # "CRITICAL"

\* C1 amended: a value beyond panic_high (or below panic_low) gives one
\* alert, the PANIC HIGH (PANIC LOW) one, whose severity is the severity the
\* engine gives the panic tier, "CRITICAL", and not the severity it gives the
\* critical tier, "HIGH".
C1_PanicTakesPriority ==
    /\ PastBothHigh =>
        /\ IsAlert(check_result)
        /\ LabelOf(check_result) = "PANIC HIGH"
        /\ SeverityOf(check_result) = "CRITICAL"
        /\ SeverityOf(check_result) # "HIGH"
    /\ PastBothLow =>
        /\ IsAlert(check_result)
        /\ LabelOf(check_result) = "PANIC LOW"
        /\ SeverityOf(check_result) = "CRITICAL"
        /\ SeverityOf(check_result) # "HIGH"

C1_Witness ==
    /\ Returned /\ arg_test = "glucose" /\ arg_value = 60001
    /\ PastBothHigh
    /\ LabelOf(check_result) = "PANIC HIGH"

\* a value equal to one of the four bounds does not trigger that bound
StrictOnAllBounds ==
    (Returned /\ IsNumericTest(arg_test)) =>
        /\ (panic_low(arg_test) # None /\ arg_value = panic_low(arg_test).num)
              => LabelOf(check_result) # "PANIC LOW"
        /\ (panic_high(arg_test) # None /\ arg_value = panic_high(arg_test).num)
              => LabelOf(check_result) # "PANIC HIGH"
        /\ (critical_low(arg_test) # None /\ arg_value = critical_low(arg_test).num)
              => LabelOf(check_result) \notin {"CRITICAL LOW", "PANIC LOW"}
        /\ (critical_high(arg_test) # None /\ arg_value = critical_high(arg_test).num)
              => LabelOf(check_result) \notin {"CRITICAL HIGH", "PANIC HIGH"}

\* the value is beyond the critical bound on the low side, on the high side
BelowCriticalLow ==
    /\ Returned /\ IsNumericTest(arg_test)
    /\ critical_low(arg_test) # None /\ arg_value < critical_low(arg_test).num

AboveCriticalHigh ==
    /\ Returned /\ IsNumericTest(arg_test)
    /\ critical_high(arg_test) # None /\ arg_value > critical_high(arg_test).num

\* C2 as stated: the comparison is strict on the four bounds, and a value
\* just below critical_low (just above critical_high) gives an alert of
\* severity CRITICAL, or PANIC when it is also past the panic bound.
C2_StrictWithSpecSeverities ==
    /\ StrictOnAllBounds
    /\ BelowCriticalLow =>
        /\ IsAlert(check_result)
        /\ SeverityOf(check_result) =
              IF PastBothLow THEN "PANIC" ELSE "CRITICAL"
    /\ AboveCriticalHigh =>
        /\ IsAlert(check_result)
        /\ SeverityOf(check_result) =
              IF PastBothHigh THEN "PANIC" ELSE "CRITICAL"

\* C2 amended: the comparison is strict on the four bounds, and a value
\* just below critical_low (just above critical_high) gives the CRITICAL LOW
\* (CRITICAL HIGH) alert, of severity "HIGH", or the PANIC LOW (PANIC HIGH)
\* alert, of severity "CRITICAL", when it is also past the panic bound.
C2_StrictComparison ==
    /\ StrictOnAllBounds
    /\ BelowCriticalLow =>
        /\ IsAlert(check_result)
        /\ LabelOf(check_result) =
              IF PastBothLow THEN "PANIC LOW" ELSE "CRITICAL LOW"
        /\ SeverityOf(check_result) =
              IF PastBothLow THEN "CRITICAL" ELSE "HIGH"
    /\ AboveCriticalHigh =>
        /\ IsAlert(check_result)
        /\ LabelOf(check_result) =
              IF PastBothHigh THEN "PANIC HIGH" ELSE "CRITICAL HIGH"
        /\ SeverityOf(check_result) =
              IF PastBothHigh THEN "CRITICAL" ELSE "HIGH"

C2_Witness ==
    /\ Returned /\ arg_test = "ph" /\ arg_value = 719
    /\ arg_value = critical_low(arg_test).num - 1
    /\ LabelOf(check_result) = "CRITICAL LOW"

\* C3: for every test name and every value, the negative ones and zero
\* included, check_critical_value returns an alert or None; it never raises.
C3_Total ==
    Returned =>
        /\ ~IsRaised(check_result)
        /\ check_result = None \/ SeverityOf(check_result) # ""

C3_Witness ==
    /\ Returned /\ arg_test = "creatinine" /\ arg_value = -1
    /\ critical_low(arg_test) = None
    /\ check_result = None

LowAbsentTests == {"creatinine", "inr", "troponin", "bnp"}

HighAbsentTests == {"po2"}

\* C4: creatinine, inr, troponin and bnp have no low bound and no value
\* gives them a low-side alert; po2 has no high bound and no value gives it a
\* high-side alert.
C4_AbsentBoundNeverTriggers ==
    /\ \A t \in LowAbsentTests :
        /\ IsNumericTest(t) /\ panic_low(t) = None /\ critical_low(t) = None
        /\ (Returned /\ arg_test = t)
              => LabelOf(check_result) \notin {"PANIC LOW", "CRITICAL LOW"}
    /\ \A t \in HighAbsentTests :
        /\ IsNumericTest(t) /\ panic_high(t) = None /\ critical_high(t) = None
        /\ (Returned /\ arg_test = t)
              => LabelOf(check_result) \notin {"PANIC HIGH", "CRITICAL HIGH"}

C4_Witness ==
    /\ Returned /\ arg_test = "troponin" /\ arg_value = -100000
    /\ check_result = None

\* C5: for a boolean-alert test, whatever the value, the call returns an
\* alert of the definition's severity that carries the subject id, the test,
\* the value, the severity and the message, as the alerts of numeric tests do.
C5_BooleanAlertComplete ==
    (Returned /\ arg_test \in DOMAIN critical_ranges
              /\ IsBooleanAlert(critical_ranges[arg_test])) =>
        /\ IsAlert(check_result)
        /\ SeverityOf(check_result) = critical_ranges[arg_test].priority
        /\ {"patient_id", "test", "value", "severity", "message"}
              \subseteq DOMAIN check_result

\* C6: a value of a numeric test that breaches no critical bound, an absent
\* bound being no limit, gives None.
C6_NoAlertInsideCriticalBounds ==
    (/\ Returned /\ IsNumericTest(arg_test)
     /\ critical_low(arg_test) = None \/ critical_low(arg_test).num <= arg_value
     /\ critical_high(arg_test) = None \/ arg_value <= critical_high(arg_test).num)
        => check_result = None

C6_Witness ==
    /\ Returned /\ arg_test = "glucose" /\ arg_value = 50000
    /\ arg_value = critical_high(arg_test).num
    /\ check_result = None

GlucoseThirtyFive == Returned /\ arg_test = "glucose" /\ arg_value = 3500

\* C7: glucose = 35 gives an alert of severity PANIC whose message holds
\* "PANIC LOW" and whose value is 35.
C7_GlucosePanicLow ==
    GlucoseThirtyFive =>
        /\ IsAlert(check_result)
        /\ SeverityOf(check_result) = "PANIC"
        /\ LabelOf(check_result) = "PANIC LOW"
        /\ check_result.value = 3500

\* the value is above critical_high and not above panic_high
BetweenCriticalAndPanicHigh ==
    /\ AboveCriticalHigh
    /\ panic_high(arg_test) # None /\ arg_value <= panic_high(arg_test).num

\* C8 as stated: a value above critical_high and not above panic_high, such
\* as potassium = 6.8, gives the CRITICAL HIGH alert with severity CRITICAL.
C8_SeverityIsCritical ==
    BetweenCriticalAndPanicHigh =>
        /\ IsAlert(check_result)
        /\ LabelOf(check_result) = "CRITICAL HIGH"
        /\ SeverityOf(check_result) = "CRITICAL"
        /\ SeverityOf(check_result) # "PANIC"

\* C8 amended: a value above critical_high and not above panic_high, such
\* as potassium = 6.8, gives the CRITICAL HIGH alert, whose severity is
\* "HIGH", the lower tier, and not "CRITICAL", the severity of the panic tier.
C8_LowerTierBetweenBounds ==
    BetweenCriticalAndPanicHigh =>
        /\ IsAlert(check_result)
        /\ LabelOf(check_result) = "CRITICAL HIGH"
        /\ SeverityOf(check_result) = "HIGH"
        /\ SeverityOf(check_result) # "CRITICAL"

C8_Witness ==
    /\ Returned /\ arg_test = "potassium" /\ arg_value = 680
    /\ BetweenCriticalAndPanicHigh
    /\ SeverityOf(check_result) = "HIGH"

-----------------------------------------------------------------------------
(* Properties of the engine, under Spec *)

\* C9: a call of check_critical_value for a test that is not in the table,
\* alone or from the monitor's loop, returns None without raising and leaves
\* the alert history as it was.
C9_UnknownTestNoAlert ==
    [][ (/\ op' \in {"check_critical_value", "process_result"}
         /\ arg_test' \notin DOMAIN critical_ranges)
           => /\ check_result' = None
              /\ alert_history' = alert_history
              /\ notify_log' = notify_log
              /\ escalation_log' = escalation_log ]_vars

C9_Witness ==
    /\ op = "process_result" /\ arg_test = "unknown_test"
    /\ check_result = None
    /\ Len(alert_history) = 1

\* the step is a call of send_alert with an alert whose severity is no key
\* of the escalation matrix
SendsUnroutable ==
    /\ op' = "send_alert"
    /\ {"message", "severity"} \subseteq DOMAIN sent_alert'
    /\ sent_alert'.severity \notin DOMAIN escalation_matrix

\* C10: send_alert with an alert whose severity is no key of the escalation
\* matrix appends the alert to alert_history, notifies nobody, schedules no
\* escalation and returns False.
C10_UnroutableStillRecorded ==
    [][ SendsUnroutable
           => /\ alert_history' = Append(alert_history, sent_alert')
              /\ notify_log' = notify_log
              /\ escalation_log' = escalation_log
              /\ send_result' = PyBool(FALSE) ]_vars

C10_Witness ==
    /\ op = "send_alert"
    /\ "severity" \in DOMAIN sent_alert /\ sent_alert.severity = "PANIC"
    /\ send_result = PyBool(FALSE)
    /\ alert_history # <<>> /\ alert_history[Len(alert_history)] = sent_alert
    /\ notify_log = <<>> /\ escalation_log = <<>>

-----------------------------------------------------------------------------
(* Properties of the engine when notifications can fail, under SpecNotify *)

\* the step is a call of send_alert, direct or from the monitor's loop, with
\* an alert whose severity has a policy
SendsRoutable ==
    /\ op' \in {"send_alert", "process_result"}
    /\ sent_alert' # None
    /\ {"message", "severity"} \subseteq DOMAIN sent_alert'
    /\ sent_alert'.severity \in DOMAIN escalation_matrix

\* the notify_contact calls made by the step
CallsOfStep == SubSeq(notify_log', Len(notify_log) + 1, Len(notify_log'))

\* C11: in a call of send_alert, notify_contact is called for every role of
\* the policy's primary list, whether or not the call for an earlier role
\* failed.
C11_BestEffortFanOut ==
    [][ SendsRoutable =>
          LET primary == escalation_matrix[sent_alert'.severity].primary IN
          \A i \in 1..Len(primary) :
              \E k \in 1..Len(CallsOfStep) :
                  CallsOfStep[k] = <<primary[i], sent_alert'>> ]_vars

-----------------------------------------------------------------------------
(* Properties of the dashboard, under SpecDashboard *)

\* the step is a click on a row that stays in the table
SameAlerts == op' # "generate"

\* C12: once an alert is acknowledged, no later step escalates it.
C12_NoEscalationAfterAck ==
    [][ SameAlerts =>
          \A i \in DOMAIN critical_values :
              (critical_values[i].Acknowledged /\ ~critical_values[i].Escalated)
                  => ~critical_values'[i].Escalated ]_vars

\* the escalation status of a row
StatusOf(row) ==
    IF row.Acknowledged /\ row.Escalated THEN "ACKNOWLEDGED_AFTER_ESCALATION"
    ELSE IF row.Acknowledged THEN "ACKNOWLEDGED"
    ELSE IF row.Escalated THEN "ESCALATED"
    ELSE "RAISED"

\* the changes of status the specification's state machine allows, the two
\* escalated stages being one in the dashboard
AllowedChanges ==
    { <<"RAISED", "ACKNOWLEDGED">>,
      <<"RAISED", "ESCALATED">>,
      <<"ESCALATED", "ACKNOWLEDGED_AFTER_ESCALATION">> }

\* C13: the status of an alert changes only along the edges of the state
\* machine; ACKNOWLEDGED is terminal.
C13_StatusMachine ==
    [][ SameAlerts =>
          \A i \in DOMAIN critical_values :
              \/ StatusOf(critical_values'[i]) = StatusOf(critical_values[i])
              \/ <<StatusOf(critical_values[i]), StatusOf(critical_values'[i])>>
                    \in AllowedChanges ]_vars

\* C15: acknowledging an alert that is acknowledged already leaves every
\* alert as it is, ends with the success message and not with an error, and
\* calls no collaborator.
C15_AckIdempotent ==
    [][ (op' = "acknowledge" /\ acked_before')
          => /\ critical_values' = critical_values
             /\ banner' = "Alert acknowledged!"
             /\ notify_log' = notify_log ]_vars

C15_Witness ==
    /\ op = "acknowledge" /\ acked_before
    /\ IsAcknowledged(critical_values, selected_alert)
    /\ banner = "Alert acknowledged!"

-----------------------------------------------------------------------------
(* Progress of escalation, under SpecLive *)

\* an alert has been routed: send_alert notified its primary roles and
\* called schedule_escalation for it
SomeAlertRouted == escalation_log # <<>>

\* every role of this list of the alert's policy has been notified of it
TierNotified(alert, tier) ==
    LET roles == escalation_matrix[alert.severity][tier] IN
    \A i \in 1..Len(roles) :
        \E k \in 1..Len(notify_log) : notify_log[k] = <<roles[i], alert>>

\* C14: an alert that was routed and is never acknowledged (the engine has
\* no operation that acknowledges) eventually has the roles of its policy's
\* secondary list notified, and then those of the final list.
C14_EscalationReachesSecondary ==
    SomeAlertRouted ~>
        (SomeAlertRouted /\ TierNotified(escalation_log[1].alert, "secondary"))

-----------------------------------------------------------------------------
(* The stores of alerts, under SpecSystem *)

IsPrefix(a, b) == Len(a) <= Len(b) /\ SubSeq(b, 1, Len(a)) = a

\* the step is a click that writes a flag of a recorded alert
WritesFlag == op' \in {"acknowledge", "escalate"}

\* C16 as stated: every store of alerts is append-only: what it held before a
\* step is a prefix of what it holds after it, but for the flags that
\* acknowledging and escalating write.
C16_EveryStoreAppendOnly ==
    [][ /\ IsPrefix(alert_history, alert_history')
        /\ ~WritesFlag => IsPrefix(critical_values, critical_values') ]_vars

\* C16 amended: the engine's alert_history is append-only: what it held
\* before a step is a prefix of what it holds after it.  The dashboard's
\* table keeps its rows and their order under Acknowledge, Escalate and the
\* selectbox.
C16_HistoryAppendOnly ==
    [][ /\ IsPrefix(alert_history, alert_history')
        /\ op' \in {"acknowledge", "escalate", "select"} =>
              /\ DOMAIN critical_values' = DOMAIN critical_values
              /\ \A i \in DOMAIN critical_values :
                    critical_values'[i].Test_ID = critical_values[i].Test_ID ]_vars

C16_Witness ==
    /\ program = "engine" /\ op = "send_alert"
    /\ Len(alert_history) = 2
    /\ alert_history[2] = sent_alert
    /\ alert_history[1] # alert_history[2]

-----------------------------------------------------------------------------
(* Concurrent recording, under SpecConcurrent *)

\* C17: whatever the interleaving of the sources, alert_history holds each
\* appended alert once, at the place of its append in the one order in which
\* the appends happened; no alert is lost or duplicated.
C17_SerialLedger ==
    /\ Len(alert_history) = Appended
    /\ \A s \in DOMAIN sources :
          sources[s].turn > 0 =>
              /\ sources[s].turn <= Len(alert_history)
              /\ alert_history[sources[s].turn] = sources[s].alert
    /\ \A s, t \in DOMAIN sources :
          (s # t /\ sources[s].turn > 0) => sources[s].turn # sources[t].turn

\* source 1 loaded the list while it was empty and appended after source 2
C17_Witness ==
    /\ \A s \in DOMAIN sources : sources[s].pc = "done"
    /\ sources[1].loaded = <<>> /\ sources[1].turn = 2 /\ sources[2].turn = 1
    /\ sources[2].loaded = <<>>
    /\ Len(alert_history) = NumSources

-----------------------------------------------------------------------------
(* Metrics, under SpecMetrics *)

\* C18: calculate_metrics on an engine with no recorded alert reports
\* acknowledgment_rate = 0 and raises nothing.
C18_EmptyLedgerRateZero ==
    (op = "calculate_metrics" /\ alert_history = <<>>) =>
        /\ ~IsRaised(metrics)
        /\ "acknowledgment_rate" \in DOMAIN metrics
        /\ metrics.acknowledgment_rate = 0

\* how many alerts of the ledger carry an acknowledgment
AcknowledgedInLedger ==
    Cardinality({ i \in DOMAIN alert_history :
                    PyGet(alert_history[i], "acknowledged", FALSE) = TRUE })

\* C19: the acknowledgment rate that calculate_metrics reports for a ledger
\* with alerts is the percentage of its alerts that are acknowledged.
C19_RateIsAcknowledgedOverTotal ==
    (op = "calculate_metrics" /\ alert_history # <<>> /\ ~IsRaised(metrics)) =>
        metrics.acknowledgment_rate * Len(alert_history) = 100 * AcknowledgedInLedger

-----------------------------------------------------------------------------
(* The ordering of the bounds of the catalogs, under SpecClassify *)

\* the six bounds of an entry in the order of the chain
\* panic_low, critical_low, normal_low, normal_high, critical_high, panic_high
EngineBounds(t) ==
    <<panic_low(t), critical_low(t), None, None, critical_high(t), panic_high(t)>>

LabBounds(t) ==
    <<lab_tests[t].panic_low, lab_tests[t].critical_low,
      lab_tests[t].normal_range[1], lab_tests[t].normal_range[2],
      lab_tests[t].critical_high, lab_tests[t].panic_high>>

\* the second and the fourth comparison of the chain are strict
PairOrdered(bounds, i) ==
    (bounds[i] # None /\ bounds[i + 1] # None) =>
        IF i \in {2, 4} THEN bounds[i].num < bounds[i + 1].num
                       ELSE bounds[i].num <= bounds[i + 1].num

\* C20: in the engine's catalog and in the dashboard's, two neighbouring
\* bounds of the chain panic_low <= critical_low < normal_low <= normal_high
\* < critical_high <= panic_high that are both present are in that order.
C20_CatalogBoundsOrdered ==
    /\ \A t \in DOMAIN critical_ranges :
          IsNumericTest(t) => \A i \in 1..5 : PairOrdered(EngineBounds(t), i)
    /\ \A t \in DOMAIN lab_tests : \A i \in 1..5 : PairOrdered(LabBounds(t), i)

\* a classification has used the catalog; it has entries without a low side
\* and entries with all their bounds
C20_Witness ==
    /\ op = "check_critical_value"
    /\ critical_ranges = load_critical_ranges
    /\ critical_low("troponin") = None /\ panic_low("troponin") = None
    /\ panic_low("glucose").num < critical_low("glucose").num
    /\ critical_high("glucose").num < panic_high("glucose").num
    /\ lab_tests["INR"].critical_low = None
    /\ \A i \in 1..6 : LabBounds("Glucose")[i] # None

-----------------------------------------------------------------------------
(* What the operations leave alone, under SpecEngine *)

\* C21: no operation of the engine changes critical_ranges or
\* escalation_matrix, and a call of check_critical_value leaves
\* alert_history as it was, whether it returns an alert or not.
C21_TablesReadOnlyClassifierPure ==
    [][ /\ critical_ranges' = critical_ranges
        /\ escalation_matrix' = escalation_matrix
        /\ critical_ranges' = load_critical_ranges
        /\ escalation_matrix' = setup_escalation_matrix
        /\ (op' = "check_critical_value" => alert_history' = alert_history) ]_vars

\* check_critical_value has returned an alert on an engine that has recorded
\* another alert before, and the history holds only that one
C21_Witness ==
    /\ op = "check_critical_value"
    /\ IsAlert(check_result)
    /\ Len(alert_history) = 1
    /\ alert_history[1] # check_result
    /\ critical_ranges = load_critical_ranges

-----------------------------------------------------------------------------
(* A bound of 0, under SpecZeroBound *)

\* the alert the call has returned, if any, has this label
ReturnedWithLabel(label) ==
    /\ IsAlert(check_result)
    /\ "message" \in DOMAIN check_result
    /\ check_result.message.label = label

\* C22: a bound that is present with the value 0 triggers like any other
\* bound: a value strictly beyond it gives the alert of that bound.
C22_ZeroBoundTriggers ==
    (op = "check_critical_value" /\ arg_test = "base_excess") =>
        /\ (panic_low(arg_test) = Num(0) /\ arg_value < 0) => ReturnedWithLabel("PANIC LOW")
        /\ (panic_high(arg_test) = Num(0) /\ arg_value > 0) => ReturnedWithLabel("PANIC HIGH")
        /\ (critical_low(arg_test) = Num(0) /\ arg_value < 0) => ReturnedWithLabel("CRITICAL LOW")
        /\ (critical_high(arg_test) = Num(0) /\ arg_value > 0) => ReturnedWithLabel("CRITICAL HIGH")

-----------------------------------------------------------------------------
(* Recording of what the classifier returns, under Spec *)

\* the last operation passed to send_alert an alert that
\* check_critical_value returns for a result of the feed
SentClassifierAlert ==
    \/ op = "process_result" /\ IsAlert(check_result) /\ sent_alert = check_result
    \/ /\ op = "send_alert"
       /\ \E r \in FeedResults :
             sent_alert = check_critical_value(r.test, r.value, r.patient_id)

\* C23: an alert returned by check_critical_value, of a numeric or of a
\* boolean-alert test, is in alert_history once send_alert has been called
\* with it, whatever send_alert returned.
C23_ClassifierAlertRecorded ==
    SentClassifierAlert => \E i \in DOMAIN alert_history : alert_history[i] = sent_alert

-----------------------------------------------------------------------------
(* What a call of send_alert does, under SpecSendSteps and SpecNotify *)

\* the call of send_alert has returned True
SendReturnedTrue ==
    /\ sources[1].pc = "returned"
    /\ send_result = PyBool(TRUE)

\* C24: a call of send_alert that returns True has first put the alert once
\* at the end of alert_history, then called notify_contact once for each
\* role of the primary list of the alert's severity, in the order of the
\* list, and for no other role, then called schedule_escalation once; it has
\* done nothing else to the ledger and to the two logs.
C24_SuccessfulSendInOrder ==
    SendReturnedTrue =>
        /\ {"message", "severity"} \subseteq DOMAIN sent_alert
        /\ sent_alert.severity \in DOMAIN escalation_matrix
        /\ LET policy == escalation_matrix[sent_alert.severity]
               before == sources[1].before
           IN
              /\ sources[1].effects =
                    << Effect("append", "", sent_alert) >>
                    \o [i \in 1..Len(policy.primary) |->
                           Effect("notify", policy.primary[i], sent_alert)]
                    \o << Effect("schedule", "", sent_alert) >>
              /\ alert_history = Append(before.history, sent_alert)
              /\ notify_log = before.notified
                                \o [i \in 1..Len(policy.primary) |->
                                       <<policy.primary[i], sent_alert>>]
              /\ escalation_log =
                    Append(before.scheduled,
                           [alert |-> sent_alert, minutes |-> policy.escalation_time])

\* a CRITICAL alert has been sent with success as the second alert of the
\* ledger: recorded, then two roles notified, then one escalation scheduled
C24_Witness ==
    /\ SendReturnedTrue
    /\ Len(alert_history) = 2
    /\ alert_history[2] = sent_alert
    /\ sent_alert.severity = "CRITICAL"
    /\ Len(sources[1].effects) = 4
    /\ sources[1].effects[1].call = "append"
    /\ sources[1].effects[2] = Effect("notify", "attending_physician", sent_alert)
    /\ sources[1].effects[3] = Effect("notify", "charge_nurse", sent_alert)
    /\ sources[1].effects[4].call = "schedule"

\* a step of send_alert on this alert raises: the log line, the lookup of the
\* policy, or the notification of a primary role
SomeStepRaises(alert) ==
    \/ "message" \notin DOMAIN alert
    \/ "severity" \notin DOMAIN alert
    \/ alert.severity \notin DOMAIN escalation_matrix
    \/ \E i \in DOMAIN escalation_matrix[alert.severity].primary :
          NotificationFails(escalation_matrix[alert.severity].primary[i])

\* C25: a call of send_alert returns True or False and never raises; it
\* returns False when one of its steps raised and True only when none did.
C25_FailuresBecomeFalse ==
    (op \in {"send_alert", "process_result"} /\ sent_alert # None) =>
        /\ send_result \in {PyBool(TRUE), PyBool(FALSE)}
        /\ send_result = PyBool(FALSE) <=> SomeStepRaises(sent_alert)

\* the notification of a primary role raised during the call: the alert is
\* recorded, the role was called, no escalation is scheduled, False returned
C25_Witness ==
    /\ op = "send_alert"
    /\ send_result = PyBool(FALSE)
    /\ {"message", "severity"} \subseteq DOMAIN sent_alert
    /\ sent_alert.severity = "CRITICAL"
    /\ "attending_physician" \in channel_down
    /\ alert_history = <<sent_alert>>
    /\ notify_log = << <<"attending_physician", sent_alert>> >>
    /\ escalation_log = <<>>

-----------------------------------------------------------------------------
(* The production runner, under SpecRunner and SpecRunnerLive *)

\* C26: restart_count is never above max_restarts, and a run in which every
\* check finds the child terminated makes at most max_restarts restarts.
C26_RestartsBounded ==
    /\ runner.restart_count <= Tenths(max_restarts)
    /\ runner.always_terminated => runner.attempts <= max_restarts

\* C27: restart_count goes down only in a cycle without a restart whose
\* check was at least the 60th in a row to find the child running, and it
\* is never negative.
C27_ResetOnlyWhenStable ==
    [][ /\ runner'.restart_count >= 0
        /\ runner'.restart_count < runner.restart_count =>
              (~runner.restarted /\ runner.stable_checks >= StableChecks) ]_vars

\* C28: a run in which every check finds the child terminated leaves the
\* loop, and a start_streamlit that returns False during monitoring ends the
\* run without another restart: once run() is over the runner does nothing
\* more, only the child it has left running can still end.
C28_CrashLoopEnds ==
    /\ <>(runner.pc = "exited" \/ ~runner.always_terminated)
    /\ [][ (op' = "startup_poll" /\ runner.process = "terminated" /\ runner.restarted)
              => (runner'.pc = "exited" /\ runner'.ended = "restart_failed"
                    /\ runner'.attempts = runner.attempts
                    /\ runner'.restart_count = runner.restart_count) ]_vars
    /\ [][ runner.pc = "exited" =>
              [runner' EXCEPT !.process = runner.process] = runner ]_vars

\* the loop has been left for the maximum of restarts after a run of checks
\* that all found the child terminated
C28_Witness ==
    /\ runner.pc = "exited"
    /\ runner.ended = "max_restarts"
    /\ runner.always_terminated
    /\ runner.attempts > 0

-----------------------------------------------------------------------------
(* Monotonicity of the classification, under SpecClassify *)

\* the tier of what a call returned: 2 for the panic tier, 1 for the
\* critical tier, 0 for no alert
TierOf(x) ==
    IF SeverityOf(x) = "CRITICAL" THEN 2 ELSE IF SeverityOf(x) = "HIGH" THEN 1 ELSE 0

IsLowSide(x) == LabelOf(x) \in {"PANIC LOW", "CRITICAL LOW"}

IsHighSide(x) == LabelOf(x) \in {"PANIC HIGH", "CRITICAL HIGH"}

\* what the classifier returns for another value of the same test
ForValue(v) == check_critical_value(arg_test, v, arg_patient)

\* C29: for a numeric test, when a value gives a low-side alert every
\* smaller value gives a low-side alert of the same tier or a higher one,
\* and when a value gives a high-side alert every greater value gives a
\* high-side alert of the same tier or a higher one.
C29_MonotoneInValue ==
    (Returned /\ IsNumericTest(arg_test)) =>
        /\ IsLowSide(check_result) =>
              \A v \in Values :
                  v < arg_value =>
                      IsLowSide(ForValue(v)) /\ TierOf(ForValue(v)) >= TierOf(check_result)
        /\ IsHighSide(check_result) =>
              \A v \in Values :
                  v > arg_value =>
                      IsHighSide(ForValue(v)) /\ TierOf(ForValue(v)) >= TierOf(check_result)

\* glucose just below its critical low bound: a smaller value is in the
\* panic tier
C29_Witness ==
    /\ Returned
    /\ arg_test = "glucose"
    /\ LabelOf(check_result) = "CRITICAL LOW"
    /\ \E v \in Values : v < arg_value /\ LabelOf(ForValue(v)) = "PANIC LOW"

-----------------------------------------------------------------------------
(* The severities of the classifier and the escalation matrix, under SpecClassify *)

\* self.escalation_matrix.get(severity) gives a policy
HasPolicy(severity) == PyGet(escalation_matrix, severity, None) # None

\* the priority a boolean-alert definition gives its alerts, "HIGH" when it
\* names none
PriorityOf(ranges) == PyGet(ranges, "priority", "HIGH")

\* C30: the severity of every alert check_critical_value returns, the
\* priority of every boolean-alert definition and the default priority have
\* a policy in the escalation matrix.
C30_ClassifierSeveritiesRoutable ==
    /\ (Returned /\ IsAlert(check_result)) => HasPolicy(check_result.severity)
    /\ \A t \in DOMAIN critical_ranges :
          IsBooleanAlert(critical_ranges[t]) => HasPolicy(PriorityOf(critical_ranges[t]))
    /\ HasPolicy(PriorityOf(EmptyDict))

\* an alert of the critical tier has been returned and its severity has a
\* policy with a primary list
C30_Witness ==
    /\ Returned
    /\ IsAlert(check_result)
    /\ check_result.severity = "HIGH"
    /\ LabelOf(check_result) = "CRITICAL HIGH"
    /\ Len(escalation_matrix[check_result.severity].primary) = 1

====
